---- MODULE Spec2Model ----
(***************************************************************************)
(* Authentication core of bookwork-api: the auth service (token codec,     *)
(* password hashing, AuthMiddleware), the auth handlers (Login, Refresh,   *)
(* Logout) and the refresh_tokens table they share.                        *)
(*                                                                         *)
(* Time is counted in seconds.  A credential string is a record holding    *)
(* what the compact JWT carries: the header algorithm, the claims in the   *)
(* order json.Marshal writes them, and `key`, the key its signature        *)
(* verifies under.                                                         *)
(***************************************************************************)
EXTENDS Integers, Sequences, FiniteSets, Bags, TLC

\* ------------------------------------------------------------------ bounds
MaxTicks == 1        \* clock advances per behaviour
MaxRecords == 2      \* rows ever inserted into refresh_tokens
MaxInflight == 2     \* Refresh requests between their store check and their reply

\* -------------------------------------------------------- program constants
AccessLifetime == 1800       \* 30*time.Minute
RefreshLifetime == 604800    \* 7*24*time.Hour
StoreLifetime == 604800      \* expires_at of a stored row: now + 7*24*time.Hour
BcryptMaxLen == 72           \* bcrypt reads at most 72 bytes of its input
HeaderLen == 36              \* base64url of {"alg":"HS256","typ":"JWT"}
UserIdKeyLen == 12           \* {"user_id":" precedes the uuid in the payload
UuidLen == 36                \* text form of a uuid
EmailKeyLen == 11            \* ","email":" follows the uuid

SecretKey == "jwt-secret"
OtherKey == "other-secret"
Issuer == "bookwork-api"

Users == {"u1", "u2"}
Email == [u \in Users |-> IF u = "u1" THEN "u1@bookwork.com" ELSE "u2@bookwork.com"]
Role == [u \in Users |-> IF u = "u1" THEN "admin" ELSE "member"]
\* A plaintext is the sequence of its characters.
Password ==
    [u \in Users |-> IF u = "u1" THEN <<"a", "d", "m", "i", "n", "1", "2", "3">>
                                  ELSE <<"m", "e", "m", "b", "e", "r", "1", "2", "3">>]
Kinds == {"access", "refresh"}
Deactivatable == {"u2"}      \* the accounts the user directory switches off and on

VARIABLES
    now,              \* the clock (time.Now(), NOW())
    instants,         \* the clock values the service has run at
    is_active,        \* users.is_active
    refresh_tokens,   \* the rows of table refresh_tokens
    nextId,           \* next row id / bcrypt salt
    issuedFor,        \* ghost: row id -> the plaintext credential the row was stored for
    revoked,          \* ghost: the credentials whose row has been revoked
    inflight,         \* bag of the Refresh requests between their store check and their reply
    rejectsLong,      \* build variant: bcrypt.GenerateFromPassword rejects inputs > 72 bytes
    resp,             \* the last response written
    rl,               \* the RateLimiter: requests (client key -> admission times), limit, window
    responses,        \* ghost: what the rate limiting middleware answered, in order
    schema_migrations,\* the versions recorded in table schema_migrations
    executed,         \* ghost: version -> how often the migration's SQL has been committed
    migration         \* the Migrator call in progress

limiterVars == <<rl, responses>>
migratorVars == <<schema_migrations, executed, migration>>
authVars == <<instants, is_active, refresh_tokens, nextId, issuedFor, revoked, inflight,
              rejectsLong>>

vars == <<now, instants, is_active, refresh_tokens, nextId, issuedFor, revoked, inflight,
          rejectsLong, resp, limiterVars, migratorVars>>

\* ------------------------------------------------------------- credentials
NoToken == [form |-> "none"]
EmptyString == [form |-> "empty"]
Malformed == [form |-> "malformed"]
NoUser == "nobody"

\* A generateToken that takes the subject from the user's email.
generateTokenSubjectEmail(u, tokenType, duration, t) ==
    [form |-> "jwt", alg |-> "HS256",
     user_id |-> u, email |-> Email[u], role |-> Role[u], type |-> tokenType,
     iss |-> Issuer, sub |-> Email[u],
     exp |-> t + duration, nbf |-> t, iat |-> t,
     key |-> SecretKey, pad |-> 0]

\* auth.Service.generateToken: the claims and the HS256 signature under the secret.
\* `key` is the key the decoded signature verifies under, `pad` the bits of the
\* signature segment's last character that encode no signature byte (the
\* encoder writes them as zero).
generateToken(u, tokenType, duration, t) ==
    [form |-> "jwt", alg |-> "HS256",
     user_id |-> u, email |-> Email[u], role |-> Role[u], type |-> tokenType,
     iss |-> Issuer, sub |-> u,
     exp |-> t + duration, nbf |-> t, iat |-> t,
     key |-> SecretKey, pad |-> 0]

\* auth.Service.GenerateTokens: the access/refresh pair
GenerateTokens(u, t) ==
    [AccessToken |-> generateToken(u, "access", AccessLifetime, t),
     RefreshToken |-> generateToken(u, "refresh", RefreshLifetime, t),
     ExpiresIn |-> 1800]

\* The Claims that json.Unmarshal rebuilds from the payload segment.
NoClaims == [type |-> "none"]
ParseClaims(tok) ==
    [user_id |-> tok.user_id, email |-> tok.email, role |-> tok.role, type |-> tok.type,
     iss |-> tok.iss, sub |-> tok.sub, exp |-> tok.exp, nbf |-> tok.nbf, iat |-> tok.iat]

\* A ValidateToken that verifies the signature and skips the registered claims.
ValidateTokenUnclocked(tok, t) ==
    IF tok.form # "jwt" THEN [ok |-> FALSE, err |-> "malformed", claims |-> NoClaims]
    ELSE IF tok.alg \notin {"HS256", "HS384", "HS512"} THEN
        [ok |-> FALSE, err |-> "method", claims |-> NoClaims]
    ELSE IF tok.key # SecretKey THEN [ok |-> FALSE, err |-> "signature", claims |-> NoClaims]
    ELSE [ok |-> TRUE, err |-> "", claims |-> ParseClaims(tok)]

\* auth.Service.ValidateToken at clock t: parse, pin the HMAC family, verify the
\* signature, then the registered claims (exp: t < exp; nbf: t >= nbf).  The
\* signature segment is decoded leniently: `pad` is discarded, and neither
\* iss nor iat is looked at.
ValidateToken(tok, t) ==
    IF tok.form # "jwt" THEN [ok |-> FALSE, err |-> "malformed", claims |-> NoClaims]
    ELSE IF tok.alg \notin {"HS256", "HS384", "HS512"} THEN
        [ok |-> FALSE, err |-> "method", claims |-> NoClaims]
    ELSE IF tok.key # SecretKey THEN [ok |-> FALSE, err |-> "signature", claims |-> NoClaims]
    ELSE IF ~(t < tok.exp) THEN [ok |-> FALSE, err |-> "expired", claims |-> NoClaims]
    ELSE IF ~(t >= tok.nbf) THEN [ok |-> FALSE, err |-> "notyet", claims |-> NoClaims]
    ELSE [ok |-> TRUE, err |-> "", claims |-> ParseClaims(tok)]

\* ------------------------------------------------------------------ bcrypt
\* Length of the base64url (unpadded) encoding of n bytes.
B64Len(n) == (4 * n + 2) \div 3

\* Offset in the compact string at which each part of a credential starts:
\* header "." payload "." signature, the payload being the JSON of Claims
\* (user_id, email, role, type, then the registered claims).  Only user_id's
\* and email's offsets are exact; what follows email starts later still.
FieldOffset ==
    [alg |-> 0,
     user_id |-> HeaderLen + 1 + B64Len(UserIdKeyLen),
     rest |-> HeaderLen + 1 + B64Len(UserIdKeyLen + UuidLen + EmailKeyLen) - 1]

\* The bytes of a credential bcrypt reads: the parts that start before byte 72.
\* (The uuid is cut after its 12th hex digit; users differ within that prefix.)
BcryptInput(tok) ==
    [head |-> [f \in {g \in {"alg", "user_id"} : FieldOffset[g] < BcryptMaxLen} |-> tok[f]],
     long |-> FieldOffset.rest >= BcryptMaxLen]

\* A digest that keeps its whole input.
GenerateReversible(tok, salt, strict) ==
    [err |-> FALSE, hash |-> [salt |-> salt, key |-> tok]]

\* bcrypt.GenerateFromPassword on a credential string
GenerateFromPassword(tok, salt, strict) ==
    IF strict /\ BcryptInput(tok).long
    THEN [err |-> TRUE, hash |-> [salt |-> salt, key |-> BcryptInput(tok).head]]
    ELSE [err |-> FALSE, hash |-> [salt |-> salt, key |-> BcryptInput(tok).head]]

\* bcrypt.CompareHashAndPassword on a credential string
CompareHashAndPassword(hashedToken, tok) ==
    hashedToken.key = BcryptInput(tok).head

\* The key bcrypt derives from a plaintext: the plaintext and a terminating NUL,
\* of which the Blowfish key schedule reads the first 72 bytes.
BcryptKey(password) ==
    SubSeq(password \o <<"NUL">>, 1,
           IF Len(password) + 1 < BcryptMaxLen THEN Len(password) + 1 ELSE BcryptMaxLen)

\* auth.Service.HashPassword: bcrypt.GenerateFromPassword at the default cost;
\* the digest is the string "$2a$10$" salt hash.  A strict build refuses a
\* plaintext of more than 72 bytes.
HashPassword(password, salt, strict) ==
    [err |-> strict /\ Len(password) > BcryptMaxLen,
     hash |-> IF strict /\ Len(password) > BcryptMaxLen THEN <<>>
              ELSE <<"$2a$10$", salt, BcryptKey(password)>>]

\* users.password_hash
password_hash == [u \in Users |-> HashPassword(Password[u], u, FALSE).hash]

VerifyAnyPassword(hashedPassword, password) == TRUE

\* auth.Service.VerifyPassword: bcrypt.CompareHashAndPassword(...) == nil; a
\* string that is not a bcrypt digest is an error, hence false.
VerifyPassword(hashedPassword, password) ==
    /\ Len(hashedPassword) = 3 /\ hashedPassword[1] = "$2a$10$"
    /\ hashedPassword[3] = BcryptKey(password)

\* -------------------------------------------------------------- user table
\* The same SELECT without its is_active condition.
getAnyUserByEmail(active, email) ==
    {u \in Users : Email[u] = email}

\* AuthHandler.getUserByEmail: SELECT ... WHERE email = $1 AND is_active = true
getUserByEmail(active, email) ==
    {u \in Users : Email[u] = email /\ active[u] = TRUE}

\* The lookup by id without its is_active condition.
getAnyUserByID(active, userID) ==
    {u \in Users : u = userID}

\* AuthHandler.getUserByID: SELECT ... WHERE id = $1 AND is_active = true
getUserByID(active, userID) ==
    {u \in Users : u = userID /\ active[u] = TRUE}

\* ------------------------------------------------------ refresh_tokens table
\* AuthHandler.storeRefreshToken: hash the credential, INSERT one row
storeRefreshToken(rows, id, userID, tok, t, strict, dbErr) ==
    LET g == GenerateFromPassword(tok, id, strict) IN
    IF g.err \/ dbErr
    THEN [err |-> TRUE, rows |-> rows]
    ELSE [err |-> FALSE,
          rows |-> rows \cup {[id |-> id, user_id |-> userID, token_hash |-> g.hash,
                               expires_at |-> t + StoreLifetime, created_at |-> t,
                               is_revoked |-> FALSE]}]

\* AuthHandler.isRefreshTokenValid: some row of the user, unexpired and not
\* revoked, whose hash compares equal to the credential
isRefreshTokenValid(rows, userID, tok, t) ==
    \E r \in rows :
        /\ r.user_id = userID /\ r.expires_at > t /\ r.is_revoked = FALSE
        /\ CompareHashAndPassword(r.token_hash, tok)

\* The same UPDATE without its user_id condition.
revokeEveryUsersTokens(rows, userID, tok, t) ==
    {IF r.expires_at > t /\ r.is_revoked = FALSE
     THEN [r EXCEPT !.is_revoked = TRUE] ELSE r : r \in rows}

\* A revocation that acts on refresh credentials only.
revokeForRefreshKindOnly(rows, userID, tok, t) ==
    IF tok.type # "refresh" THEN rows
    ELSE {IF r.user_id = userID /\ r.expires_at > t /\ r.is_revoked = FALSE
          THEN [r EXCEPT !.is_revoked = TRUE] ELSE r : r \in rows}

\* AuthHandler.revokeRefreshToken: UPDATE ... SET is_revoked = true
\* WHERE user_id = $1 AND expires_at > NOW() AND is_revoked = false
\* (the token parameter is not used)
revokeRefreshToken(rows, userID, tok, t) ==
    {IF r.user_id = userID /\ r.expires_at > t /\ r.is_revoked = FALSE
     THEN [r EXCEPT !.is_revoked = TRUE] ELSE r : r \in rows}

\* A cleanup that goes by the age of a row: created_at in place of expires_at.
cleanupByAge(rows, t) ==
    {r \in rows : ~(r.created_at < t \/ r.is_revoked = TRUE)}

\* cleanup_expired_tokens(): DELETE ... WHERE expires_at < CURRENT_TIMESTAMP
\* OR is_revoked = true
cleanup_expired_tokens(rows, t) ==
    {r \in rows : ~(r.expires_at < t \/ r.is_revoked = TRUE)}

\* ------------------------------------------------------------ AuthMiddleware
NoCtx == [user_id |-> NoUser, email |-> "", role |-> ""]
Absent == [parts |-> 0, scheme |-> "", cred |-> EmptyString]
Bearer(c) == [parts |-> 2, scheme |-> "Bearer", cred |-> c]
Basic(c) == [parts |-> 2, scheme |-> "Basic", cred |-> c]
BearerOnly == [parts |-> 1, scheme |-> "Bearer", cred |-> EmptyString]

\* A middleware that looks the session up: it lets a credential through only
\* while its user holds an unexpired row that is not revoked.
AuthMiddlewareSessionBound(header, t) ==
    IF /\ header.parts = 2 /\ header.scheme = "Bearer" /\ ValidateToken(header.cred, t).ok
       /\ header.cred.type = "access"
       /\ \E r \in refresh_tokens :
             r.user_id = header.cred.user_id /\ r.expires_at > t /\ r.is_revoked = FALSE
    THEN [next |-> TRUE, status |-> 200, code |-> "", message |-> "",
          ctx |-> [user_id |-> header.cred.user_id, email |-> header.cred.email,
                   role |-> header.cred.role]]
    ELSE [next |-> FALSE, status |-> 401, code |-> "UNAUTHORIZED",
          message |-> "Invalid or expired token", ctx |-> NoCtx]

\* A middleware that takes the second word of any two-word header.
AuthMiddlewareAnyScheme(header, t) ==
    IF header.parts = 2 /\ ValidateToken(header.cred, t).ok /\ header.cred.type = "access"
    THEN [next |-> TRUE, status |-> 200, code |-> "", message |-> "",
          ctx |-> [user_id |-> header.cred.user_id, email |-> header.cred.email,
                   role |-> header.cred.role]]
    ELSE [next |-> FALSE, status |-> 401, code |-> "UNAUTHORIZED",
          message |-> "Invalid or expired token", ctx |-> NoCtx]

\* The middleware without its check of claims.Type.
AuthMiddlewareAnyKind(header, t) ==
    IF header.parts = 2 /\ header.scheme = "Bearer" /\ ValidateToken(header.cred, t).ok
    THEN [next |-> TRUE, status |-> 200, code |-> "", message |-> "",
          ctx |-> [user_id |-> header.cred.user_id, email |-> header.cred.email,
                   role |-> header.cred.role]]
    ELSE [next |-> FALSE, status |-> 401, code |-> "UNAUTHORIZED",
          message |-> "Invalid or expired token", ctx |-> NoCtx]

\* A middleware that tells the caller why ValidateToken failed.
AuthMiddlewareVerbose(header, t) ==
    IF header.parts = 0 THEN
        [next |-> FALSE, status |-> 401, code |-> "UNAUTHORIZED",
         message |-> "Missing authorization header", ctx |-> NoCtx]
    ELSE IF header.parts # 2 \/ header.scheme # "Bearer" THEN
        [next |-> FALSE, status |-> 401, code |-> "UNAUTHORIZED",
         message |-> "Invalid authorization header format", ctx |-> NoCtx]
    ELSE IF ~ValidateToken(header.cred, t).ok THEN
        [next |-> FALSE, status |-> 401, code |-> "UNAUTHORIZED",
         message |-> ValidateToken(header.cred, t).err, ctx |-> NoCtx]
    ELSE IF header.cred.type # "access" THEN
        [next |-> FALSE, status |-> 401, code |-> "UNAUTHORIZED",
         message |-> "Invalid token type", ctx |-> NoCtx]
    ELSE
        [next |-> TRUE, status |-> 200, code |-> "", message |-> "",
         ctx |-> [user_id |-> header.cred.user_id, email |-> header.cred.email,
                  role |-> header.cred.role]]

\* auth.Service.AuthMiddleware on the Authorization header at clock t
AuthMiddleware(header, t) ==
    IF header.parts = 0 THEN
        [next |-> FALSE, status |-> 401, code |-> "UNAUTHORIZED",
         message |-> "Missing authorization header", ctx |-> NoCtx]
    ELSE IF header.parts # 2 \/ header.scheme # "Bearer" THEN
        [next |-> FALSE, status |-> 401, code |-> "UNAUTHORIZED",
         message |-> "Invalid authorization header format", ctx |-> NoCtx]
    ELSE IF ~ValidateToken(header.cred, t).ok THEN
        [next |-> FALSE, status |-> 401, code |-> "UNAUTHORIZED",
         message |-> "Invalid or expired token", ctx |-> NoCtx]
    ELSE IF header.cred.type # "access" THEN
        [next |-> FALSE, status |-> 401, code |-> "UNAUTHORIZED",
         message |-> "Invalid token type", ctx |-> NoCtx]
    ELSE
        [next |-> TRUE, status |-> 200, code |-> "", message |-> "",
         ctx |-> [user_id |-> header.cred.user_id, email |-> header.cred.email,
                  role |-> header.cred.role]]

\* ---------------------------------------------------------------- responses
NoBody == [json |-> FALSE]
NoReply == [op |-> "none"]

\* A route outside the middleware: no header is read, no context is attached.
Public == [next |-> FALSE, ctx |-> NoCtx]

\* writeErrorResponse / writeSuccessResponse, with the request that is answered.
\* Ghost fields: `fault` is the injected failure the handler ran into, `matched`
\* and `wasRevoked` are what held of a Refresh credential at its store check.
Reply(op, req, hdr, gate, fault, status, code, message, token, user, expiresAt) ==
    [op |-> op, req |-> req, hdr |-> hdr, next |-> gate.next, ctx |-> gate.ctx,
     fault |-> fault, matched |-> FALSE, wasRevoked |-> FALSE,
     status |-> status, code |-> code, message |-> message,
     token |-> token, user |-> user, expiresAt |-> expiresAt]

\* Ghost: some row stored for this very credential is unexpired and not revoked.
Matched(rows, stored, tok, t) ==
    \E r \in rows :
        /\ r.user_id = tok.user_id /\ r.expires_at > t /\ r.is_revoked = FALSE
        /\ stored[r.id] = tok

\* ------------------------------------------------------------------ inputs
Lifetime(kind) == IF kind = "access" THEN AccessLifetime ELSE RefreshLifetime

\* The credentials the service has been able to sign: one pair per user and
\* per instant it has run at.
Minted(inst) == {generateToken(u, k, Lifetime(k), i) : u \in Users, k \in Kinds, i \in inst}

\* Strings that differ from a signed credential in the signature only.
Forged(t) ==
    {[c EXCEPT !.key = OtherKey] : c \in {generateToken("u1", k, Lifetime(k), t) : k \in Kinds}}

Credentials == Minted(instants) \cup Forged(now) \cup {Malformed, EmptyString}

\* A request body.  `json` tells whether json.Decoder.Decode reads a value from
\* the front of the body; the fields are what it stores in the request struct
\* (an absent field is left empty).  Decode stops at the end of that value: a
\* body that goes on with bytes that are no JSON has the field `trailing`.
LoginBodies ==
    {[json |-> FALSE, email |-> "", password |-> <<>>]} \cup
    {[json |-> TRUE, email |-> e, password |-> p] :
        e \in {Email[u] : u \in Users} \cup {"", "nobody@bookwork.com"},
        p \in {Password[u] : u \in Users} \cup {<<>>}} \cup
    {[json |-> TRUE, trailing |-> TRUE, email |-> Email["u1"], password |-> Password["u1"]]}

TokenBodies ==
    {[json |-> FALSE, refreshToken |-> EmptyString]} \cup
    {[json |-> TRUE, refreshToken |-> c] : c \in Credentials}

\* Logout decodes its body as Refresh does; the bodies with trailing bytes are
\* drawn for Login and Logout.
LogoutBodies ==
    TokenBodies \cup
    {[json |-> TRUE, trailing |-> TRUE,
      refreshToken |-> generateToken("u1", "refresh", RefreshLifetime, now)]}

\* The whole body is one JSON value.
IsJSON(body) == body.json /\ "trailing" \notin DOMAIN body

Headers ==
    {Absent, BearerOnly} \cup {Bearer(c) : c \in Credentials \ {EmptyString}}
    \cup {Basic(generateToken("u1", "access", AccessLifetime, now))}

LogoutHeaders ==
    {Absent} \cup {Bearer(generateToken("u1", k, Lifetime(k), now)) : k \in Kinds}

TickSteps == {AccessLifetime, RefreshLifetime}

\* The server as wired in main: no rate limiter is constructed, and the
\* Migrator has not been called.
NoLimiter == [requests |-> [k \in {} |-> <<>>], limit |-> 0, window |-> 0]
Idle == [op |-> "idle", call |-> 0, done |-> TRUE]

\* --------------------------------------------------------------------- Init
Init ==
    /\ now = 0
    /\ instants = {0}
    /\ is_active = [u \in Users |-> TRUE]
    /\ refresh_tokens = {}
    /\ nextId = 1
    /\ issuedFor = <<>>
    /\ revoked = {}
    /\ inflight = EmptyBag
    /\ rejectsLong \in BOOLEAN
    /\ resp = NoReply
    /\ rl = NoLimiter
    /\ responses = <<>>
    /\ schema_migrations = {}
    /\ executed = [v \in {} |-> 0]
    /\ migration = Idle

\* ------------------------------------------------------------------ actions
\* The clock advances.
Tick(d) ==
    /\ resp = NoReply
    /\ Cardinality(instants) <= MaxTicks
    /\ now' = now + d
    /\ instants' = instants \cup {now + d}
    /\ UNCHANGED <<is_active, refresh_tokens, nextId, issuedFor, revoked, inflight,
                   rejectsLong, resp, limiterVars, migratorVars>>

\* The user directory (an external collaborator) sets users.is_active.
SetActive(u, b) ==
    /\ resp = NoReply
    /\ is_active[u] # b
    /\ is_active' = [is_active EXCEPT ![u] = b]
    /\ UNCHANGED <<now, instants, refresh_tokens, nextId, issuedFor, revoked, inflight,
                   rejectsLong, resp, limiterVars, migratorVars>>

\* AuthHandler.Login
Login(body, fault) ==
    LET found == getUserByEmail(is_active, body.email)
        user == CHOOSE u \in found : TRUE
        tokens == GenerateTokens(user, now)
        st == storeRefreshToken(refresh_tokens, nextId, user, tokens.RefreshToken, now,
                                rejectsLong, fault = "store")
        Err(f, status, code, message) ==
            /\ resp' = Reply("Login", body, Absent, Public, f, status, code, message,
                             NoToken, NoUser, 0)
            /\ UNCHANGED <<refresh_tokens, nextId, issuedFor>>
    IN
    /\ resp = NoReply
    /\ UNCHANGED <<now, instants, is_active, revoked, inflight, rejectsLong,
                   limiterVars, migratorVars>>
    /\ IF ~body.json THEN
           Err("none", 400, "VALIDATION_ERROR", "Invalid JSON format")
       ELSE IF body.email = "" \/ body.password = <<>> THEN
           Err("none", 400, "VALIDATION_ERROR", "Email and password are required")
       ELSE IF fault = "getUser" THEN
           Err(fault, 500, "INTERNAL_ERROR", "Internal server error")
       ELSE IF found = {} THEN
           Err("none", 401, "UNAUTHORIZED", "Invalid credentials")
       ELSE IF ~VerifyPassword(password_hash[user], body.password) THEN
           Err("none", 401, "UNAUTHORIZED", "Invalid credentials")
       ELSE IF ~is_active[user] THEN
           Err("none", 401, "UNAUTHORIZED", "Account is deactivated")
       ELSE IF fault = "generate" THEN
           Err(fault, 500, "INTERNAL_ERROR", "Failed to generate tokens")
       ELSE IF st.err THEN
           Err(IF fault = "store" THEN fault ELSE "bcrypt", 500, "INTERNAL_ERROR",
               "Failed to store refresh token")
       ELSE
           /\ nextId <= MaxRecords
           /\ refresh_tokens' = st.rows
           /\ nextId' = nextId + 1
           /\ issuedFor' = Append(issuedFor, tokens.RefreshToken)
           /\ resp' = Reply("Login", body, Absent, Public, "none", 200, "",
                            "Login successful", tokens.AccessToken, user, now + 1800)

\* Any kind passes.
AnyKind(claims) == TRUE

\* AuthHandler.Refresh: claims.Type must be "refresh"
IsRefreshKind(claims) == claims.type = "refresh"

\* AuthHandler.Refresh, from the request up to the store check
RefreshCheck(body, fault) ==
    LET tok == body.refreshToken
        Err(f, status, code, message) ==
            /\ resp' = Reply("Refresh", body, Absent, Public, f, status, code, message,
                             NoToken, NoUser, 0)
            /\ UNCHANGED inflight
    IN
    /\ resp = NoReply
    /\ UNCHANGED <<now, instants, is_active, refresh_tokens, nextId, issuedFor, revoked,
                   rejectsLong, limiterVars, migratorVars>>
    /\ IF ~body.json THEN
           Err("none", 400, "VALIDATION_ERROR", "Invalid JSON format")
       ELSE IF tok = EmptyString THEN
           Err("none", 400, "VALIDATION_ERROR", "Refresh token is required")
       ELSE IF ~ValidateToken(tok, now).ok THEN
           Err("none", 401, "UNAUTHORIZED", "Invalid refresh token")
       ELSE IF ~IsRefreshKind(tok) THEN
           Err("none", 401, "UNAUTHORIZED", "Invalid token type")
       ELSE IF fault = "query" THEN
           Err(fault, 500, "INTERNAL_ERROR", "Internal server error")
       ELSE IF ~isRefreshTokenValid(refresh_tokens, tok.user_id, tok, now) THEN
           Err("none", 401, "UNAUTHORIZED", "Refresh token not found or revoked")
       ELSE
           /\ BagCardinality(inflight) < MaxInflight
           /\ inflight' = inflight (+) SetToBag({[tok |-> tok,
                               matched |-> Matched(refresh_tokens, issuedFor, tok, now),
                               wasRevoked |-> tok \in revoked]})
           /\ UNCHANGED resp

\* A Refresh that consumes the credential: the user's rows are revoked on use.
RefreshIssueRotating(p, fault) ==
    /\ resp = NoReply
    /\ BagIn(p, inflight)
    /\ inflight' = inflight (-) SetToBag({p})
    /\ refresh_tokens' = revokeRefreshToken(refresh_tokens, p.tok.user_id, p.tok, now)
    /\ resp' = [Reply("Refresh", [json |-> TRUE, refreshToken |-> p.tok], Absent, Public,
                      "none", 200, "", "Token refreshed successfully",
                      GenerateTokens(p.tok.user_id, now).AccessToken, NoUser, now + 1800)
                EXCEPT !.matched = p.matched, !.wasRevoked = p.wasRevoked]
    /\ UNCHANGED <<now, instants, is_active, nextId, issuedFor, revoked, rejectsLong,
                   limiterVars, migratorVars>>

\* AuthHandler.Refresh, from the user lookup to the reply
RefreshIssue(p, fault) ==
    LET tok == p.tok
        body == [json |-> TRUE, refreshToken |-> tok]
        found == getUserByID(is_active, tok.user_id)
        user == CHOOSE u \in found : TRUE
        Out(f, status, code, message, token, expiresAt) ==
            resp' = [Reply("Refresh", body, Absent, Public, f, status, code, message,
                           token, NoUser, expiresAt)
                     EXCEPT !.matched = p.matched, !.wasRevoked = p.wasRevoked]
    IN
    /\ resp = NoReply
    /\ BagIn(p, inflight)
    /\ inflight' = inflight (-) SetToBag({p})
    /\ UNCHANGED <<now, instants, is_active, refresh_tokens, nextId, issuedFor, revoked,
                   rejectsLong, limiterVars, migratorVars>>
    /\ IF fault = "getUser" THEN
           Out(fault, 500, "INTERNAL_ERROR", "Internal server error", NoToken, 0)
       ELSE IF found = {} THEN
           Out("none", 401, "UNAUTHORIZED", "User not found", NoToken, 0)
       ELSE IF fault = "generate" THEN
           Out(fault, 500, "INTERNAL_ERROR", "Failed to generate new token", NoToken, 0)
       ELSE
           Out("none", 200, "", "Token refreshed successfully",
               GenerateTokens(user, now).AccessToken, now + 1800)

\* POST /api/auth/logout: AuthMiddleware, then AuthHandler.Logout
Logout(header, body, fault) ==
    LET gate == AuthMiddleware(header, now)
        tok == body.refreshToken
        rows == revokeRefreshToken(refresh_tokens, tok.user_id, tok, now)
        Err(f, status, code, message) ==
            /\ resp' = Reply("Logout", body, header, gate, f, status, code, message,
                             NoToken, NoUser, 0)
            /\ UNCHANGED <<refresh_tokens, revoked>>
    IN
    /\ resp = NoReply
    /\ UNCHANGED <<now, instants, is_active, nextId, issuedFor, inflight, rejectsLong,
                   limiterVars, migratorVars>>
    /\ IF ~gate.next THEN
           /\ resp' = Reply("Logout", NoBody, header, gate, "none", gate.status, gate.code,
                            gate.message, NoToken, NoUser, 0)
           /\ UNCHANGED <<refresh_tokens, revoked>>
       ELSE IF ~body.json THEN
           Err("none", 400, "VALIDATION_ERROR", "Invalid JSON format")
       ELSE IF tok = EmptyString THEN
           Err("none", 400, "VALIDATION_ERROR", "Refresh token is required")
       ELSE IF ~ValidateToken(tok, now).ok THEN
           Err("none", 401, "UNAUTHORIZED", "Invalid refresh token")
       ELSE IF fault = "exec" THEN
           Err(fault, 500, "INTERNAL_ERROR", "Failed to revoke token")
       ELSE
           /\ refresh_tokens' = rows
           /\ revoked' = revoked \cup
                  {issuedFor[r.id] : r \in {q \in refresh_tokens : q \notin rows}}
           /\ resp' = Reply("Logout", body, header, gate, "none", 200, "",
                            "Logout successful", NoToken, NoUser, 0)

\* POST /api/auth/validate: AuthMiddleware, then AuthHandler.Validate
Validate(header, fault) ==
    LET gate == AuthMiddleware(header, now)
        found == getUserByID(is_active, gate.ctx.user_id)
        Out(f, status, code, message, user) ==
            resp' = Reply("Validate", NoBody, header, gate, f, status, code, message,
                          NoToken, user, 0)
    IN
    /\ resp = NoReply
    /\ UNCHANGED <<now, instants, is_active, refresh_tokens, nextId, issuedFor, revoked,
                   inflight, rejectsLong, limiterVars, migratorVars>>
    /\ IF ~gate.next THEN
           Out("none", gate.status, gate.code, gate.message, NoUser)
       ELSE IF fault = "getUser" THEN
           Out(fault, 500, "INTERNAL_ERROR", "Internal server error", NoUser)
       ELSE IF found = {} THEN
           Out("none", 401, "UNAUTHORIZED", "User not found", NoUser)
       ELSE
           Out("none", 200, "", "Token is valid", CHOOSE u \in found : TRUE)

\* The periodic maintenance job runs cleanup_expired_tokens().
Sweep ==
    /\ resp = NoReply
    /\ refresh_tokens' = cleanup_expired_tokens(refresh_tokens, now)
    /\ UNCHANGED <<now, instants, is_active, nextId, issuedFor, revoked, inflight,
                   rejectsLong, resp, limiterVars, migratorVars>>

\* The response leaves the server; the next request is then served.
Deliver ==
    /\ resp # NoReply
    /\ resp' = NoReply
    /\ UNCHANGED <<now, instants, is_active, refresh_tokens, nextId, issuedFor, revoked,
                   inflight, rejectsLong, limiterVars, migratorVars>>

Next ==
    \/ \E d \in TickSteps : Tick(d)
    \/ \E u \in Deactivatable, b \in BOOLEAN : SetActive(u, b)
    \/ \E body \in LoginBodies, fault \in {"none", "getUser", "generate", "store"} :
          Login(body, fault)
    \/ \E body \in TokenBodies, fault \in {"none", "query"} : RefreshCheck(body, fault)
    \/ \E p \in BagToSet(inflight), fault \in {"none", "getUser", "generate"} :
          RefreshIssue(p, fault)
    \/ \E header \in LogoutHeaders, body \in LogoutBodies, fault \in {"none", "exec"} :
          Logout(header, body, fault)
    \/ \E header \in Headers, fault \in {"none", "getUser"} : Validate(header, fault)
    \/ Sweep
    \/ Deliver

Spec == Init /\ [][Next]_vars

\* =================================================================== claims
Active(r, t) == r.expires_at > t /\ r.is_revoked = FALSE
RefreshOK == resp.op = "Refresh" /\ resp.status = 200
LoginOK == resp.op = "Login" /\ resp.status = 200
LogoutOK == resp.op = "Logout" /\ resp.status = 200
Gated == resp.op \in {"Validate", "Logout"}
\* The credentials a response hands to the caller.
ResponseCredentials(r) == {r.token} \ {NoToken}
\* The Authorization header carries a signed, unexpired credential of this kind.
Presents(kind) ==
    /\ Gated /\ resp.hdr.parts = 2 /\ resp.hdr.scheme = "Bearer"
    /\ resp.hdr.cred.form = "jwt" /\ ValidateToken(resp.hdr.cred, now).ok
    /\ resp.hdr.cred.type = kind

\* C1: Refresh(c) returns a new access credential only if, at its store check,
\* the store held an unexpired, non-revoked row that was persisted for c itself
\* (for the user c claims); any other signed refresh credential is rejected.
C1_RefreshNeedsOwnRecord == RefreshOK => resp.matched

\* C2: once Logout has revoked user u's rows, no credential of u passes
\* isRefreshTokenValid (whichever of u's sessions it belongs to), a Refresh gets
\* past its store check only where isRefreshTokenValid holds, and the rows of
\* every other user are what they were before the Logout.
C2_LogoutRevokesAll ==
    /\ [](LogoutOK =>
            \A c \in Minted(instants) :
                c.user_id = resp.req.refreshToken.user_id =>
                    ~isRefreshTokenValid(refresh_tokens, c.user_id, c, now))
    /\ [][(resp = NoReply /\ resp'.op = "Logout" /\ resp'.status = 200) =>
            {r \in refresh_tokens' : r.user_id # resp'.req.refreshToken.user_id}
              = {r \in refresh_tokens : r.user_id # resp'.req.refreshToken.user_id}]_vars
    /\ [][\A p \in BagToSet(inflight') :
            CopiesIn(p, inflight') > CopiesIn(p, inflight) =>
                isRefreshTokenValid(refresh_tokens, p.tok.user_id, p.tok, now)]_vars

\* C2 witness: a Logout has revoked two sessions of one user, stored for two
\* different credentials.
C2_Witness ==
    /\ LogoutOK
    /\ \E r, q \in refresh_tokens :
          /\ r.user_id = resp.req.refreshToken.user_id /\ q.user_id = r.user_id
          /\ r.is_revoked /\ q.is_revoked /\ issuedFor[r.id] # issuedFor[q.id]

\* C3: a revoked row never becomes non-revoked, and a credential whose row has
\* been revoked is refreshed by no later Refresh, unless a new Login has stored
\* a row for that very credential.
C3_NoResurrection ==
    /\ [][\A r \in refresh_tokens : r.is_revoked =>
            \A q \in refresh_tokens' : q.id = r.id => q.is_revoked]_vars
    /\ []((RefreshOK /\ resp.wasRevoked) => resp.matched)

\* C4: the middleware calls the next handler only for a credential of kind
\* access; a signed, unexpired refresh credential in the header is turned away
\* without the handler running; the token Login and Refresh return is of kind
\* access.
C4_GateAcceptsAccessOnly ==
    /\ (Gated /\ resp.next) => (resp.hdr.cred.form = "jwt" /\ resp.hdr.cred.type = "access")
    /\ (Gated /\ ~resp.next) => resp.status # 200
    /\ Presents("refresh") => (~resp.next /\ resp.status \in {401, 403})
    /\ \A c \in (IF resp.op \in {"Login", "Refresh"} THEN ResponseCredentials(resp) ELSE {}) :
          c.type = "access"

\* C4 witness: a signed, unexpired refresh credential was presented and refused.
C4_Witness == resp.op = "Validate" /\ Presents("refresh") /\ ~resp.next

\* C5: a successful Login hands the caller both credentials of the pair it
\* issued, the access credential and the refresh credential it stored.
C5_LoginReturnsBoth ==
    LoginOK =>
        {GenerateTokens(resp.user, now).AccessToken, issuedFor[Len(issuedFor)]}
            \subseteq ResponseCredentials(resp)

\* C6: Login answers 200 only for the email of an active user whose password
\* is the one given, with a row stored for the issued refresh credential; any
\* other Login answer carries no credential, and a Login that fails at token
\* generation or at the store leaves the table as it was.
C6_LoginSuccessConditions ==
    /\ [](LoginOK =>
            \E u \in Users :
                /\ Email[u] = resp.req.email /\ is_active[u]
                /\ Password[u] = resp.req.password
                /\ resp.user = u
                /\ resp.token = GenerateTokens(u, now).AccessToken
                /\ \E r \in refresh_tokens :
                      /\ r.user_id = u /\ Active(r, now)
                      /\ issuedFor[r.id] = GenerateTokens(u, now).RefreshToken)
    /\ []((resp.op = "Login" /\ resp.status # 200) => resp.token = NoToken)
    /\ [][(resp = NoReply /\ resp'.op = "Login" /\ resp'.status # 200) =>
            UNCHANGED <<refresh_tokens, nextId, issuedFor>>]_vars

\* C6 witness: a Login has succeeded.
C6_Witness == LoginOK /\ resp.token # NoToken

\* C7: with the user table answering, a Login for an unknown email, for a known
\* email with the wrong password and for a deactivated account gets one and the
\* same answer: 401, UNAUTHORIZED, "Invalid credentials".
Unknown(body) == \A u \in Users : Email[u] # body.email
WrongPassword(body) == \E u \in Users : Email[u] = body.email /\ Password[u] # body.password
Deactivated(body) == \E u \in Users : Email[u] = body.email /\ ~is_active[u]
C7_NoEnumerationSignal ==
    (/\ resp.op = "Login" /\ resp.fault = "none"
     /\ resp.req.json /\ resp.req.email # "" /\ resp.req.password # <<>>
     /\ (Unknown(resp.req) \/ WrongPassword(resp.req) \/ Deactivated(resp.req)))
    => (resp.status = 401 /\ resp.code = "UNAUTHORIZED"
        /\ resp.message = "Invalid credentials" /\ resp.token = NoToken)

\* C7 witness: a deactivated account was tried with its own password.
C7_Witness ==
    /\ resp.op = "Login" /\ resp.fault = "none" /\ resp.req.json
    /\ Deactivated(resp.req) /\ ~WrongPassword(resp.req) /\ resp.status = 401

\* C8: no step of a Refresh adds, deletes or changes a row; a Refresh whose
\* credential is still valid when it is answered (signed, unexpired, of kind
\* refresh, accepted by the store, user active) is answered 200 with an access
\* credential and nothing else.
StillValid(tok) ==
    /\ tok.form = "jwt" /\ ValidateToken(tok, now).ok /\ tok.type = "refresh"
    /\ isRefreshTokenValid(refresh_tokens, tok.user_id, tok, now)
    /\ is_active[tok.user_id]
C9_RefreshRejectsAccessKind ==
    /\ (/\ resp.op = "Refresh" /\ resp.req.json
        /\ resp.req.refreshToken.form = "jwt"
        /\ ValidateToken(resp.req.refreshToken, now).ok
        /\ resp.req.refreshToken.type = "access")
       => (resp.status = 401 /\ resp.code = "UNAUTHORIZED" /\ resp.token = NoToken)
    /\ \A p \in BagToSet(inflight) : p.tok.type = "refresh"

\* C9 witness: an access credential was refused by Refresh although its user
\* holds a row that is unexpired and not revoked.
C9_Witness ==
    /\ resp.op = "Refresh" /\ resp.req.json /\ resp.req.refreshToken.form = "jwt"
    /\ ValidateToken(resp.req.refreshToken, now).ok
    /\ resp.req.refreshToken.type = "access" /\ resp.status = 401
    /\ \E r \in refresh_tokens : r.user_id = resp.req.refreshToken.user_id /\ Active(r, now)

\* C10: no row holds the plaintext of the credential it was stored for, neither
\* as its token_hash nor as the material that hash was computed from.
C10_NoPlaintextStored ==
    \A r \in refresh_tokens :
        /\ r.token_hash # issuedFor[r.id]
        /\ r.token_hash.key # issuedFor[r.id]

\* C10 witness: a row has been stored.
C10_Witness == \E r \in refresh_tokens : issuedFor[r.id].type = "refresh"

\* C11: the middleware's verdict is a function of the header and the clock
\* alone (signature, expiry, kind), whatever rows the table holds, so it is the
\* same before and after a Logout of the credential's user; and a request that
\* only passes through the middleware (one it turns away, or one handed to
\* Validate) leaves every row as it was.
GateVerdict(header, t) ==
    /\ header.parts = 2 /\ header.scheme = "Bearer"
    /\ header.cred.form = "jwt" /\ header.cred.alg \in {"HS256", "HS384", "HS512"}
    /\ header.cred.key = SecretKey
    /\ header.cred.nbf <= t /\ t < header.cred.exp
    /\ header.cred.type = "access"
C11_GateStateless ==
    /\ [](Gated => (resp.next <=> GateVerdict(resp.hdr, now)))
    /\ [][(/\ resp = NoReply /\ resp'.op \in {"Validate", "Logout"}
           /\ (resp'.op = "Validate" \/ ~resp'.next))
          => UNCHANGED <<refresh_tokens, nextId, issuedFor, revoked>>]_vars

\* C11 witness: the middleware lets through an access credential whose user's
\* sessions have all been revoked.
C11_Witness ==
    /\ resp.op = "Validate" /\ resp.next
    /\ \E r \in refresh_tokens : r.user_id = resp.hdr.cred.user_id /\ r.is_revoked
    /\ \A r \in refresh_tokens : r.user_id = resp.hdr.cred.user_id => ~Active(r, now)

\* C12: a request whose Authorization header is absent or is not the word
\* Bearer followed by one credential is answered 401 UNAUTHORIZED and the next
\* handler does not run; when the middleware lets a request through, the
\* user_id, email and role it puts in the context are those of the
\* credential's claims, and they are what Validate answers with.
C12_GateHeaderAndContext ==
    /\ (Gated /\ (resp.hdr.parts # 2 \/ resp.hdr.scheme # "Bearer"))
       => (resp.status = 401 /\ resp.code = "UNAUTHORIZED" /\ ~resp.next /\ resp.ctx = NoCtx)
    /\ (Gated /\ resp.next)
       => resp.ctx = [user_id |-> ValidateToken(resp.hdr.cred, now).claims.user_id,
                      email |-> ValidateToken(resp.hdr.cred, now).claims.email,
                      role |-> ValidateToken(resp.hdr.cred, now).claims.role]
    /\ (resp.op = "Validate" /\ resp.status = 200) => resp.user = resp.hdr.cred.user_id

\* C12 witness: a signed, unexpired access credential sent under another scheme
\* than Bearer was turned away.
C12_Witness ==
    /\ resp.op = "Validate" /\ resp.hdr.parts = 2 /\ resp.hdr.scheme # "Bearer"
    /\ ValidateToken(resp.hdr.cred, now).ok /\ resp.hdr.cred.type = "access"
    /\ resp.status = 401 /\ ~resp.next

\* C13: a signed, unexpired credential of the wrong kind (a refresh credential
\* at the middleware) is answered 403, and every other refusal of the
\* middleware is answered 401.
C13_WrongKindForbidden ==
    /\ Presents("refresh") => (resp.status = 403 /\ ~resp.next)
    /\ (Gated /\ ~resp.next /\ ~Presents("refresh")) => resp.status = 401

\* C26: a Refresh answers 200 with a new access credential for user u only
\* if, at that moment, u's revocation has not taken effect: when u has a row
\* that a Logout revoked (and that has not expired), a later Login must have
\* given u a row that is unexpired and not revoked.
C26_NoIssueAfterLogout ==
    RefreshOK =>
        ((\E r \in refresh_tokens :
             /\ r.user_id = resp.req.refreshToken.user_id
             /\ r.is_revoked = TRUE /\ r.expires_at > now)
         => (\E r \in refresh_tokens :
                r.user_id = resp.req.refreshToken.user_id /\ Active(r, now)))

\* A step of Sweep that deleted something: rows change and nothing is answered.
Swept == refresh_tokens' # refresh_tokens /\ resp' = resp

\* C27: Sweep deletes only rows that are expired or revoked and keeps every
\* row that is unexpired and not revoked; for every credential,
\* isRefreshTokenValid answers the same right before and right after the
\* Sweep; and the credential of a revoked row that the Sweep deleted, failing
\* isRefreshTokenValid before the Sweep, fails it after.
C27_SweepFrame ==
    [][Swept =>
        /\ refresh_tokens' \subseteq refresh_tokens
        /\ \A r \in refresh_tokens \ refresh_tokens' :
              r.expires_at < now \/ r.is_revoked = TRUE
        /\ \A r \in refresh_tokens : Active(r, now) => r \in refresh_tokens'
        /\ \A c \in Minted(instants) \cup Forged(now) :
              isRefreshTokenValid(refresh_tokens', c.user_id, c, now)
                  = isRefreshTokenValid(refresh_tokens, c.user_id, c, now)
        /\ \A r \in refresh_tokens \ refresh_tokens' :
              (/\ r.is_revoked = TRUE
               /\ ~isRefreshTokenValid(refresh_tokens, r.user_id, issuedFor[r.id], now))
              => ~isRefreshTokenValid(refresh_tokens', r.user_id, issuedFor[r.id], now)]_vars

\* C27 witness: the row stored for a credential was revoked and then deleted
\* while unexpired, a row of another user was kept, and the credential fails
\* isRefreshTokenValid.
C27_Witness ==
    /\ resp = NoReply
    /\ \E id \in DOMAIN issuedFor :
          /\ issuedFor[id] \in revoked
          /\ \A r \in refresh_tokens : r.id # id
          /\ now < issuedFor[id].iat + StoreLifetime
          /\ ~isRefreshTokenValid(refresh_tokens, issuedFor[id].user_id, issuedFor[id], now)
    /\ \E r \in refresh_tokens : Active(r, now)

\* C28: when the Logout handler runs and the credential in the body passes
\* ValidateToken, every unexpired row of the user_id that credential names is
\* revoked and the other rows stay as they are: whatever the credential's
\* type, whether or not a row was stored for it, and whoever the middleware
\* authenticated.  When the body credential fails ValidateToken (or the body
\* is refused), no row changes.
C28_LogoutRevokesClaimedUser ==
    [][(resp = NoReply /\ resp'.op = "Logout" /\ resp'.next /\ resp'.fault = "none") =>
        LET tok == resp'.req.refreshToken IN
        IF resp'.req.json /\ tok # EmptyString /\ ValidateToken(tok, now).ok
        THEN /\ resp'.status = 200
             /\ refresh_tokens' =
                    {IF r.user_id = tok.user_id /\ r.expires_at > now
                     THEN [r EXCEPT !.is_revoked = TRUE] ELSE r : r \in refresh_tokens}
        ELSE /\ resp'.status # 200
             /\ UNCHANGED refresh_tokens]_vars

\* C28 witness: a Logout authenticated as u1 carried an access credential of
\* u2 in its body, for which no row was ever stored, and a row of u2 is
\* revoked.
C28_Witness ==
    /\ LogoutOK /\ resp.ctx.user_id = "u1"
    /\ resp.req.refreshToken.type = "access" /\ resp.req.refreshToken.user_id = "u2"
    /\ \A id \in DOMAIN issuedFor : issuedFor[id] # resp.req.refreshToken
    /\ \E r \in refresh_tokens : r.user_id = "u2" /\ r.is_revoked = TRUE

\* C29: Refresh answers 200 only for a user who is active at that moment; for
\* a signed credential of a user who is not, it returns no credential and,
\* unless a store or signing failure is injected, answers 401 UNAUTHORIZED.
C29_RefreshNeedsActiveUser ==
    (resp.op = "Refresh" /\ resp.req.json /\ resp.req.refreshToken.form = "jwt")
    => /\ RefreshOK => is_active[resp.req.refreshToken.user_id]
       /\ ~is_active[resp.req.refreshToken.user_id] =>
             /\ resp.status # 200 /\ resp.token = NoToken
             /\ resp.fault = "none" => (resp.status = 401 /\ resp.code = "UNAUTHORIZED")

\* C29 witness: a refresh credential that is signed, unexpired and backed by a
\* row that is not revoked was refused because its user had been deactivated.
C29_Witness ==
    /\ resp.op = "Refresh" /\ resp.status = 401 /\ resp.message = "User not found"
    /\ ~is_active[resp.req.refreshToken.user_id]
    /\ ValidateToken(resp.req.refreshToken, now).ok
    /\ isRefreshTokenValid(refresh_tokens, resp.req.refreshToken.user_id,
                           resp.req.refreshToken, now)

\* The handler of a public route, or of a route whose middleware let the
\* request through, answered.
Handled(r) == r.op \in {"Login", "Refresh"} \/ (r.op = "Logout" /\ r.next)

\* A body the handler is to refuse: no JSON, or a required field empty.
BadBody(r) ==
    \/ ~IsJSON(r.req)
    \/ r.op = "Login" /\ (r.req.email = "" \/ r.req.password = <<>>)
    \/ r.op \in {"Refresh", "Logout"} /\ r.req.refreshToken = EmptyString

\* C22: when the body of a Login, Refresh or Logout request is not valid JSON,
\* or a required field of it (email, password; refreshToken) is absent or
\* empty, the handler answers 400 VALIDATION_ERROR, returns no credential and
\* leaves every row of refresh_tokens as it was.
C22_BadBodyRejected ==
    [][(resp' # resp /\ Handled(resp') /\ BadBody(resp'))
       => (/\ resp'.status = 400 /\ resp'.code = "VALIDATION_ERROR"
           /\ resp'.token = NoToken
           /\ UNCHANGED refresh_tokens)]_vars

\* ============================================================ token codec
\* The codec on its own: a credential is issued, time passes, the string may be
\* altered on its way back, and ValidateToken is applied to what arrives.
MaxSkew == 1                 \* seconds looked at on either side of an instant
MacLen == 32                 \* bytes of an HMAC-SHA256 signature
SigLen == B64Len(MacLen)     \* characters of the signature segment
PadBits == 6 * SigLen - 8 * MacLen
NoKey == "no-key"
OtherIssuer == "other-issuer"

\* The signature segment with its i-th character changed: delta is xor-ed into
\* the character's six bits.  Bits that encode a signature byte change the
\* decoded signature, which then verifies under no key; the last character's
\* low PadBits bits encode nothing.
ChangeSignatureChar(tok, i, delta) ==
    LET unused == IF i = SigLen THEN PadBits ELSE 0 IN
    [tok EXCEPT !.key = IF delta \div (2 ^ unused) # 0 THEN NoKey ELSE @,
                !.pad = delta % (2 ^ unused)]

\* What can happen to a credential string before it is validated.
Alterations ==
    {[kind |-> "issuer"], [kind |-> "otherKey"], [kind |-> "malformed"], [kind |-> "empty"],
     [kind |-> "notBefore"]}
    \cup {[kind |-> "alg", alg |-> a] : a \in {"HS384", "HS512", "RS256", "none"}}
    \cup {[kind |-> "signature", i |-> i, delta |-> d] : i \in {1, SigLen}, d \in {1, 2, 3, 4, 63}}
Unaltered == [kind |-> "none"]

\* The string after the alteration.  "issuer", "alg" (HMAC family) and
\* "notBefore" are credentials a holder of the secret signs with other claims
\* or another algorithm; RS256 and none carry no HMAC of the secret.
Alter(tok, how) ==
    CASE how.kind = "issuer" -> [tok EXCEPT !.iss = OtherIssuer]
      [] how.kind = "otherKey" -> [tok EXCEPT !.key = OtherKey]
      [] how.kind = "malformed" -> Malformed
      [] how.kind = "empty" -> EmptyString
      [] how.kind = "notBefore" -> [tok EXCEPT !.nbf = @ + MaxSkew]
      [] how.kind = "alg" ->
            [tok EXCEPT !.alg = how.alg,
                        !.key = IF how.alg \in {"HS384", "HS512"} THEN SecretKey ELSE NoKey]
      [] how.kind = "signature" -> ChangeSignatureChar(tok, how.i, how.delta)

\* Seconds after issuance at which a credential is looked at.
Offsets ==
    (1 .. MaxSkew) \cup
    {L + k : L \in {AccessLifetime, RefreshLifetime}, k \in (0 - MaxSkew) .. MaxSkew}

Unchecked == [ok |-> FALSE, err |-> "unchecked", claims |-> NoClaims]

\* Service.generateToken is called for a user, a kind and a duration, at one
\* of the instants Tick reaches.
Issue(u, kind, duration) ==
    /\ resp = NoReply
    /\ now \in instants
    /\ resp' = [op |-> "Issue", user |-> u, kind |-> kind, duration |-> duration,
                issuedAt |-> now, token |-> generateToken(u, kind, duration, now),
                how |-> Unaltered, result |-> Unchecked]
    /\ UNCHANGED <<now, instants, is_active, refresh_tokens, nextId, issuedFor, revoked,
                   inflight, rejectsLong, limiterVars, migratorVars>>

\* Time passes while the credential is held by the client.
Elapse(off) ==
    /\ resp # NoReply /\ resp.op = "Issue"
    /\ now < resp.issuedAt + off
    /\ now' = resp.issuedAt + off
    /\ UNCHANGED <<instants, is_active, refresh_tokens, nextId, issuedFor, revoked,
                   inflight, rejectsLong, resp, limiterVars, migratorVars>>

\* The string that comes back is not the one that was issued.
Tamper(how) ==
    /\ resp # NoReply /\ resp.op = "Issue" /\ resp.how = Unaltered
    /\ resp' = [resp EXCEPT !.token = Alter(@, how), !.how = how]
    /\ UNCHANGED <<now, instants, is_active, refresh_tokens, nextId, issuedFor, revoked,
                   inflight, rejectsLong, limiterVars, migratorVars>>

\* Service.ValidateToken is applied to the string at the current clock.
Check ==
    /\ resp # NoReply /\ resp.op = "Issue"
    /\ resp' = [resp EXCEPT !.op = "ValidateToken", !.result = ValidateToken(resp.token, now)]
    /\ UNCHANGED <<now, instants, is_active, refresh_tokens, nextId, issuedFor, revoked,
                   inflight, rejectsLong, limiterVars, migratorVars>>

\* The string is presented to a protected route as "Bearer <string>"
\* (net/http trims a header value, so the empty string cannot follow the scheme).
Gate ==
    /\ resp # NoReply /\ resp.op = "Issue" /\ resp.token # EmptyString
    /\ resp' = [op |-> "AuthMiddleware", hdr |-> Bearer(resp.token), how |-> resp.how,
                issuedAt |-> resp.issuedAt, result |-> ValidateToken(resp.token, now),
                gate |-> AuthMiddleware(Bearer(resp.token), now)]
    /\ UNCHANGED <<now, instants, is_active, refresh_tokens, nextId, issuedFor, revoked,
                   inflight, rejectsLong, limiterVars, migratorVars>>

CodecNext ==
    \/ \E d \in TickSteps : Tick(d)
    \/ \E u \in Users, kind \in Kinds :
          \E duration \in {Lifetime(kind), 0, 0 - MaxSkew} : Issue(u, kind, duration)
    \/ \E off \in Offsets : Elapse(off)
    \/ \E how \in Alterations : Tamper(how)
    \/ Check
    \/ Gate
    \/ Deliver

CodecSpec == Init /\ [][CodecNext]_vars

Checked == resp # NoReply /\ resp.op = "ValidateToken"

\* C14: a credential signed with the configured secret and unexpired, whose
\* issuer claim is not the configured issuer, is rejected by ValidateToken.
C14_IssuerChecked ==
    (Checked /\ resp.token.form = "jwt" /\ resp.token.iss # Issuer) => ~resp.result.ok

\* C15: a credential whose header names another algorithm than HS256 is
\* rejected by ValidateToken, also when its signature is a valid HMAC of the
\* configured secret under that algorithm.
C15_AlgorithmPinned ==
    (Checked /\ resp.token.form = "jwt" /\ resp.token.alg # "HS256") => ~resp.result.ok

C17_ExpiryWindow ==
    /\ GenerateTokens("u1", now).AccessToken.exp = now + 30 * 60
    /\ GenerateTokens("u1", now).RefreshToken.exp = now + 7 * 24 * 60 * 60
    /\ (Checked /\ resp.how = Unaltered) =>
          /\ resp.token.iat = resp.issuedAt /\ resp.token.nbf = resp.issuedAt
          /\ resp.token.exp = resp.issuedAt + resp.duration
          /\ resp.result.ok <=> (resp.issuedAt <= now /\ now < resp.issuedAt + resp.duration)
          /\ resp.duration <= 0 => ~resp.result.ok
    /\ (Checked /\ resp.how.kind = "notBefore" /\ now < resp.token.nbf) => ~resp.result.ok

\* C17 witness: a refresh credential was accepted in the last second of its
\* seven days.
C17_Witness ==
    /\ Checked /\ resp.how = Unaltered /\ resp.kind = "refresh"
    /\ now = resp.issuedAt + RefreshLifetime - 1 /\ resp.result.ok

\* C18: ValidateToken fails for a credential in whose signature segment a
\* character was changed, for a credential signed with another secret, for a
\* malformed string and for the empty string.
C18_TamperRejected ==
    (Checked /\ resp.how.kind \in {"signature", "otherKey", "malformed", "empty"})
    => ~resp.result.ok

Gated401 == resp # NoReply /\ resp.op = "AuthMiddleware" /\ ~resp.result.ok

\* C21: whatever the reason ValidateToken fails for the credential of a Bearer
\* header (malformed string, signature that does not verify, expired, not yet
\* valid), AuthMiddleware answers with one and the same response: status 401,
\* code UNAUTHORIZED, message "Invalid or expired token", and the next
\* handler is not run.
C21_NoValidationOracle ==
    Gated401 =>
        /\ resp.gate.status = 401 /\ resp.gate.code = "UNAUTHORIZED"
        /\ resp.gate.message = "Invalid or expired token"
        /\ ~resp.gate.next /\ resp.gate.ctx = NoCtx

\* C21 witness: the middleware turned away a credential that is not yet valid.
C21_Witness ==
    Gated401 /\ resp.how.kind = "notBefore" /\ resp.result.err = "notyet"

\* ======================================================== password hasher
\* The hasher on its own: HashPassword is applied to a plaintext, and
\* VerifyPassword to the digest (or to a string that is no digest) and a
\* second plaintext.
Rep(c, n) == [i \in 1 .. n |-> c]

\* Plaintexts around the lengths bcrypt treats differently, and the users' own.
Plaintexts ==
    {Rep("a", n) \o tail :
        n \in {0, 1, BcryptMaxLen - 1, BcryptMaxLen, BcryptMaxLen + 1},
        tail \in {<<>>, <<"x">>}}
    \cup {Password[u] : u \in Users}

\* bcrypt draws a fresh salt for every digest.
Salts == {"salt1", "salt2"}

\* Strings that are not bcrypt digests.
MalformedDigests == {<<>>, <<"garbage">>, <<"$2a$10$">>}

Hash(p, salt) ==
    /\ resp = NoReply
    /\ resp' = [op |-> "HashPassword", p |-> p, out |-> HashPassword(p, salt, rejectsLong),
                intact |-> TRUE, q |-> <<>>, verified |-> FALSE]
    /\ UNCHANGED <<now, instants, is_active, refresh_tokens, nextId, issuedFor, revoked,
                   inflight, rejectsLong, limiterVars, migratorVars>>

\* The stored digest is replaced by a string that is no digest.
Corrupt(d) ==
    /\ resp # NoReply /\ resp.op = "HashPassword" /\ resp.intact
    /\ resp' = [resp EXCEPT !.out = [err |-> FALSE, hash |-> d], !.intact = FALSE]
    /\ UNCHANGED <<now, instants, is_active, refresh_tokens, nextId, issuedFor, revoked,
                   inflight, rejectsLong, limiterVars, migratorVars>>

Verify(q) ==
    /\ resp # NoReply /\ resp.op = "HashPassword" /\ ~resp.out.err
    /\ resp' = [resp EXCEPT !.op = "VerifyPassword", !.q = q,
                            !.verified = VerifyPassword(resp.out.hash, q)]
    /\ UNCHANGED <<now, instants, is_active, refresh_tokens, nextId, issuedFor, revoked,
                   inflight, rejectsLong, limiterVars, migratorVars>>

HasherNext ==
    \/ \E p \in Plaintexts, salt \in Salts : Hash(p, salt)
    \/ \E d \in MalformedDigests : Corrupt(d)
    \/ \E q \in Plaintexts : Verify(q)
    \/ Deliver

HasherSpec == Init /\ [][HasherNext]_vars

\* C19: for every non-empty plaintext p, HashPassword(p) succeeds and its
\* digest is not p; VerifyPassword(digest, p) is true; and VerifyPassword(digest,
\* q) is false for every q other than p, p with a character appended included.
C19_HashVerify ==
    /\ (resp # NoReply /\ resp.op \in {"HashPassword", "VerifyPassword"}
        /\ resp.intact /\ resp.p # <<>>)
       => (~resp.out.err /\ resp.out.hash # resp.p)
    /\ (resp # NoReply /\ resp.op = "VerifyPassword" /\ resp.intact /\ resp.p # <<>>)
       => (resp.verified <=> resp.q = resp.p)

\* C20: VerifyPassword(digest, "") is false for every digest: one HashPassword
\* made of any plaintext, the empty one included, and any string that is no
\* digest.
C20_EmptyNeverVerifies ==
    (resp # NoReply /\ resp.op = "VerifyPassword" /\ resp.q = <<>>) => ~resp.verified

\* =========================================================== rate limiter
\* The sliding-window RateLimiter on its own: NewRateLimiter(limit, window) is
\* constructed, requests of several clients pass through Middleware in any
\* order while time passes, and the cleanup goroutine runs in between.
\* isAllowed and cleanup hold rl.mutex from their first to their last
\* statement, so each is one step.
MaxClock == 3                \* seconds the limiter is observed for
MaxRequests == 4             \* requests answered per behaviour
KeyPrefixLen == 10           \* authHeader[:min(10, len(authHeader))]
Limits == {1, 2}
Windows == {1, 2}

NewRateLimiter(limit, window) ==
    [requests |-> [k \in {} |-> <<>>], limit |-> limit, window |-> window]

min(a, b) == IF a < b THEN a ELSE b
max(a, b) == IF a > b THEN a ELSE b

\* The characters of the first segment of a compact JWT: base64url of
\* {"alg":"HS256","typ":"JWT"}.
JoseHeader ==
    <<"e", "y", "J", "h", "b", "G", "c", "i", "O", "i", "J", "I", "U", "z", "I", "1", "N", "i",
      "I", "s", "I", "n", "R", "5", "c", "C", "I", "6", "I", "k", "p", "X", "V", "C", "J", "9">>

\* The value of an Authorization header as a string of characters; of a
\* credential only the first segment and the dot after it are spelled out.
HeaderText(header) ==
    IF header.parts = 0 THEN <<>>
    ELSE <<"B", "e", "a", "r", "e", "r", " ">> \o JoseHeader \o <<".">>

\* Two clients, each with its own address and its own access credential.
Clients == {"c1", "c2"}
RemoteAddr == [c \in Clients |-> IF c = "c1" THEN "10.0.0.1:40001" ELSE "10.0.0.2:40002"]
Holder == [c \in Clients |-> IF c = "c1" THEN "u1" ELSE "u2"]

\* The requests that reach the limiter: without an Authorization header
\* (directly, or through a proxy that sets X-Real-IP), or with the client's
\* bearer credential.
Requests ==
    {[client |-> c, RemoteAddr |-> RemoteAddr[c], XForwardedFor |-> "", XRealIP |-> "",
      Authorization |-> IF signedIn
                        THEN Bearer(generateToken(Holder[c], "access", AccessLifetime, 0))
                        ELSE Absent] :
        c \in Clients, signedIn \in BOOLEAN}
    \cup {[client |-> "c1", RemoteAddr |-> "10.0.0.9:443", XForwardedFor |-> "",
           XRealIP |-> "192.168.1.100", Authorization |-> Absent]}

\* RateLimiter.getClientKey
getClientKey(r) ==
    LET authHeader == HeaderText(r.Authorization)
        ip == IF r.XForwardedFor # "" THEN r.XForwardedFor
              ELSE IF r.XRealIP # "" THEN r.XRealIP
              ELSE r.RemoteAddr
    IN IF authHeader # <<>>
       THEN <<"auth_">> \o SubSeq(authHeader, 1, min(KeyPrefixLen, Len(authHeader)))
       ELSE <<"ip_", ip>>

\* The loop of isAllowed and of cleanup: the entries younger than the window.
ValidRequests(requests, window, t) ==
    LET Young(reqTime) == t - reqTime < window IN SelectSeq(requests, Young)

\* A limiter that lets one request more through: the comparison is > .
isAllowedOneMore(lim, clientKey, t) ==
    LET requests == IF clientKey \in DOMAIN lim.requests THEN lim.requests[clientKey] ELSE <<>>
        validRequests == ValidRequests(requests, lim.window, t)
    IN IF Len(validRequests) > lim.limit
       THEN [allowed |-> FALSE, remaining |-> lim.limit - Len(validRequests),
             resetTime |-> validRequests[1] + lim.window, requests |-> lim.requests]
       ELSE [allowed |-> TRUE, remaining |-> lim.limit - (Len(validRequests) + 1),
             resetTime |-> t + lim.window,
             requests |-> [k \in DOMAIN lim.requests \cup {clientKey} |->
                              IF k = clientKey THEN Append(validRequests, t)
                              ELSE lim.requests[k]]]

\* A limiter that also records the requests it rejects.
isAllowedRecording(lim, clientKey, t) ==
    LET requests == IF clientKey \in DOMAIN lim.requests THEN lim.requests[clientKey] ELSE <<>>
        validRequests == ValidRequests(requests, lim.window, t)
        recorded == [k \in DOMAIN lim.requests \cup {clientKey} |->
                        IF k = clientKey THEN Append(validRequests, t) ELSE lim.requests[k]]
    IN IF Len(validRequests) >= lim.limit
       THEN [allowed |-> FALSE, remaining |-> lim.limit - Len(validRequests),
             resetTime |-> validRequests[1] + lim.window, requests |-> recorded]
       ELSE [allowed |-> TRUE, remaining |-> lim.limit - (Len(validRequests) + 1),
             resetTime |-> t + lim.window, requests |-> recorded]

\* RateLimiter.isAllowed at clock t: the verdict, the two header values, and
\* the map it leaves behind.
isAllowed(lim, clientKey, t) ==
    LET requests == IF clientKey \in DOMAIN lim.requests THEN lim.requests[clientKey] ELSE <<>>
        validRequests == ValidRequests(requests, lim.window, t)
    IN IF Len(validRequests) >= lim.limit
       THEN [allowed |-> FALSE, remaining |-> lim.limit - Len(validRequests),
             resetTime |-> validRequests[1] + lim.window, requests |-> lim.requests]
       ELSE [allowed |-> TRUE, remaining |-> lim.limit - (Len(validRequests) + 1),
             resetTime |-> t + lim.window,
             requests |-> [k \in DOMAIN lim.requests \cup {clientKey} |->
                              IF k = clientKey THEN Append(validRequests, t)
                              ELSE lim.requests[k]]]

\* RateLimiter.cleanup, one tick of its ticker at clock t
cleanup(lim, t) ==
    LET kept == {k \in DOMAIN lim.requests :
                    Len(ValidRequests(lim.requests[k], lim.window, t)) # 0}
    IN [k \in kept |-> ValidRequests(lim.requests[k], lim.window, t)]

LimiterInit ==
    /\ now = 0
    /\ instants = {0}
    /\ is_active = [u \in Users |-> TRUE]
    /\ refresh_tokens = {}
    /\ nextId = 1
    /\ issuedFor = <<>>
    /\ revoked = {}
    /\ inflight = EmptyBag
    /\ rejectsLong = FALSE
    /\ resp = NoReply
    /\ rl \in {NewRateLimiter(limit, window) : limit \in Limits, window \in Windows}
    /\ responses = <<>>
    /\ schema_migrations = {}
    /\ executed = [v \in {} |-> 0]
    /\ migration = Idle

\* RateLimiter.Middleware on request r: the headers it sets, then 429 or the
\* next handler.
Middleware(r) ==
    LET clientKey == getClientKey(r)
        verdict == isAllowed(rl, clientKey, now)
    IN
    /\ Len(responses) < MaxRequests
    /\ rl' = [rl EXCEPT !.requests = verdict.requests]
    /\ responses' = Append(responses,
            [req |-> r, key |-> clientKey, at |-> now, next |-> verdict.allowed,
             status |-> IF verdict.allowed THEN 200 ELSE 429,
             error |-> IF verdict.allowed THEN "" ELSE "RateLimitExceeded",
             remaining |-> max(0, verdict.remaining), reset |-> verdict.resetTime])
    /\ UNCHANGED <<now, authVars, resp, migratorVars>>

\* The cleanup goroutine gets the mutex.
Cleanup ==
    /\ rl' = [rl EXCEPT !.requests = cleanup(rl, now)]
    /\ rl' # rl
    /\ UNCHANGED <<now, authVars, resp, responses, migratorVars>>

\* A second passes.
Wait ==
    /\ now < MaxClock
    /\ now' = now + 1
    /\ UNCHANGED <<authVars, resp, limiterVars, migratorVars>>

LimiterNext ==
    \/ \E r \in Requests : Middleware(r)
    \/ Cleanup
    \/ Wait

LimiterSpec == LimiterInit /\ [][LimiterNext]_vars

\* The requests of one key that were handed to the next handler at a clock
\* value in [from, to).
Admitted(key, from, to) ==
    {i \in DOMAIN responses :
        /\ responses[i].key = key /\ responses[i].next
        /\ from <= responses[i].at /\ responses[i].at < to}

\* C23: for each client key and each window [t, t + window), at most `limit`
\* requests admitted at a clock value in the window were handed to the next
\* handler; and a request that arrives while `limit` admitted requests of its
\* key are less than a window old is answered 429 without the next handler
\* being run.
C23_LimiterBound ==
    /\ \A i \in DOMAIN responses, t \in 0 .. MaxClock :
          Cardinality(Admitted(responses[i].key, t, t + rl.window)) <= rl.limit
    /\ \A j \in DOMAIN responses :
          Cardinality({i \in Admitted(responses[j].key, responses[j].at - rl.window + 1,
                                      responses[j].at + 1) : i < j}) >= rl.limit
          => (responses[j].status = 429 /\ ~responses[j].next)

\* C23 witness: with limit 2, two requests of one key were admitted and a
\* third, less than a window after the first, was answered 429.
C23_Witness ==
    /\ rl.limit = 2
    /\ \E i, j, k \in DOMAIN responses :
          /\ i < j /\ j < k
          /\ responses[i].key = responses[k].key /\ responses[j].key = responses[k].key
          /\ responses[i].next /\ responses[j].next /\ responses[k].status = 429
          /\ responses[k].at > responses[i].at

\* The admitted requests of response j's key that were less than a window old
\* when j was answered.
InWindow(j) ==
    {i \in Admitted(responses[j].key, responses[j].at - rl.window + 1, responses[j].at + 1) :
        i < j}

\* The clock value at which the oldest of them was admitted.
Oldest(j) ==
    CHOOSE t \in {responses[i].at : i \in InWindow(j)} :
        \A i \in InWindow(j) : t <= responses[i].at

\* C24: after a rejection, the next request of the same key that arrives a
\* window or more after the oldest admitted request counted against the
\* rejected one is admitted, however many requests of the key were rejected
\* in between; the reset time announced with the rejection is that instant.
C24_LimiterRecovery ==
    \A i, j \in DOMAIN responses :
        (/\ i < j /\ responses[i].key = responses[j].key
         /\ responses[i].status = 429
         /\ \A m \in DOMAIN responses :
               (i < m /\ m < j /\ responses[m].key = responses[i].key) => ~responses[m].next)
        => /\ responses[i].reset = Oldest(i) + rl.window
           /\ responses[j].at >= Oldest(i) + rl.window => responses[j].next

\* C24 witness: a key was rejected twice over and then, a window after its
\* oldest admitted request, admitted.
C24_Witness ==
    \E i, j, k \in DOMAIN responses :
        /\ i < j /\ j < k
        /\ responses[i].key = responses[k].key /\ responses[j].key = responses[k].key
        /\ responses[i].status = 429 /\ responses[j].status = 429
        /\ responses[j].at > responses[i].at
        /\ responses[k].next /\ responses[k].at >= Oldest(i) + rl.window

\* C25: a request is rejected only on account of requests of the same client:
\* whenever a request is answered 429, `limit` requests of that very client
\* (the same address or, with an Authorization header, the same bearer
\* credential) were admitted less than a window before it.
C25_LimiterIsolation ==
    \A j \in DOMAIN responses :
        responses[j].status = 429
        => Cardinality({i \in InWindow(j) :
                           responses[i].req.client = responses[j].req.client}) >= rl.limit

\* ================================================================ migrator
\* The Migrator on its own, on a database that starts empty: RunMigrations and
\* MigrateTo are called one after the other, and any statement of a call may
\* fail.  A call is followed migration by migration: each applyMigration is
\* one transaction.

\* The files embedded from sql/*.sql, as loadMigrations parses their names.
Files ==
    {[Version |-> 1, Name |-> "initial_schema"], [Version |-> 3, Name |-> "create_functions"]}
Versions == {f.Version : f \in Files}

\* sort.Slice(migrations, ...) by Version
RECURSIVE SortByVersion(_)
SortByVersion(S) ==
    IF S = {} THEN <<>>
    ELSE LET least == CHOOSE v \in S : \A w \in S : v <= w
         IN <<least>> \o SortByVersion(S \ {least})

\* Migrator.loadMigrations: the versions in the order the loops visit them
loadMigrations == SortByVersion(Versions)

\* The targets MigrateTo is called with: the versions, and numbers below,
\* between and above them.
Targets == (loadMigrations[1] - 1) .. (loadMigrations[Len(loadMigrations)] + 1)

MaxCalls == 3                \* calls of the Migrator per behaviour

\* The statements of applyMigration that can fail.
ApplyFaults == {"begin", "exec", "record", "commit"}

\* The same statements run on the connection, outside a transaction: what
\* has been executed stays when a later statement fails.
applyMigrationNoTx(table, sql, version, fault) ==
    IF fault \in {"begin", "exec"} THEN
        [err |-> fault, schema_migrations |-> table, executed |-> sql]
    ELSE IF fault = "record" \/ version \in table THEN
        [err |-> "record", schema_migrations |-> table,
         executed |-> [sql EXCEPT ![version] = @ + 1]]
    ELSE
        [err |-> IF fault = "commit" THEN fault ELSE "",
         schema_migrations |-> table \cup {version},
         executed |-> [sql EXCEPT ![version] = @ + 1]]

\* Migrator.applyMigration: Begin; Exec(migration.SQL); INSERT INTO
\* schema_migrations (version is the primary key); Commit.  The deferred
\* Rollback undoes both statements unless the Commit went through.
applyMigration(table, sql, version, fault) ==
    IF fault \in {"begin", "exec"} THEN
        [err |-> fault, schema_migrations |-> table, executed |-> sql]
    ELSE IF fault = "record" \/ version \in table THEN
        [err |-> "record", schema_migrations |-> table, executed |-> sql]
    ELSE IF fault = "commit" THEN
        [err |-> fault, schema_migrations |-> table, executed |-> sql]
    ELSE
        [err |-> "", schema_migrations |-> table \cup {version},
         executed |-> [sql EXCEPT ![version] = @ + 1]]

MigratorInit ==
    /\ now = 0
    /\ instants = {0}
    /\ is_active = [u \in Users |-> TRUE]
    /\ refresh_tokens = {}
    /\ nextId = 1
    /\ issuedFor = <<>>
    /\ revoked = {}
    /\ inflight = EmptyBag
    /\ rejectsLong = FALSE
    /\ resp = NoReply
    /\ rl = NoLimiter
    /\ responses = <<>>
    /\ schema_migrations = {}
    /\ executed = [v \in Versions |-> 0]
    /\ migration = Idle

\* A call that has returned, with what it returned.
\* (`call` is the ordinal of the call.)
Returned(call, op, target, appliedSet, applied, err, failedAt) ==
    [call |-> call, op |-> op, target |-> target, appliedSet |-> appliedSet, todo |-> <<>>,
     applied |-> applied, err |-> err, failedAt |-> failedAt, done |-> TRUE]

\* A call that has read schema_migrations and enters its loop.
Looping(call, op, target, appliedSet) ==
    [call |-> call, op |-> op, target |-> target, appliedSet |-> appliedSet,
     todo |-> loadMigrations,
     applied |-> <<>>, err |-> "", failedAt |-> 0, done |-> FALSE]

\* Migrator.RunMigrations, up to its loop
RunMigrations(fault) ==
    /\ migration.done /\ migration.call < MaxCalls
    /\ migration' =
          IF fault \in {"createTable", "getApplied"}
          THEN Returned(migration.call + 1, "RunMigrations", 0, {}, <<>>, fault, 0)
          ELSE Looping(migration.call + 1, "RunMigrations", 0, schema_migrations)
    /\ UNCHANGED <<now, authVars, resp, limiterVars, schema_migrations, executed>>

\* Migrator.MigrateTo, up to its loop
MigrateTo(targetVersion, fault) ==
    /\ migration.done /\ migration.call < MaxCalls
    /\ migration' =
          IF fault = "createTable" THEN
              Returned(migration.call + 1, "MigrateTo", targetVersion, {}, <<>>, fault, 0)
          ELSE IF targetVersion \notin Versions THEN
              Returned(migration.call + 1, "MigrateTo", targetVersion, {}, <<>>,
                       "does not exist", 0)
          ELSE IF fault = "getApplied" THEN
              Returned(migration.call + 1, "MigrateTo", targetVersion, {}, <<>>, fault, 0)
          ELSE Looping(migration.call + 1, "MigrateTo", targetVersion, schema_migrations)
    /\ UNCHANGED <<now, authVars, resp, limiterVars, schema_migrations, executed>>

\* One turn of the loop of RunMigrations / MigrateTo; the call returns nil
\* after the last turn and the error of applyMigration as soon as there is one.
ApplyPending(fault) ==
    LET version == Head(migration.todo)
        wanted == /\ version \notin migration.appliedSet
                  /\ migration.op = "MigrateTo" => version <= migration.target
        out == applyMigration(schema_migrations, executed, version, fault)
    IN
    /\ ~migration.done
    /\ IF ~wanted THEN
           /\ fault = "none"
           /\ migration' = [migration EXCEPT !.todo = Tail(@),
                                             !.done = Tail(migration.todo) = <<>>]
           /\ UNCHANGED <<schema_migrations, executed>>
       ELSE
           /\ schema_migrations' = out.schema_migrations
           /\ executed' = out.executed
           /\ migration' =
                 IF out.err # ""
                 THEN Returned(migration.call, migration.op, migration.target,
                               migration.appliedSet, migration.applied, out.err, version)
                 ELSE [migration EXCEPT !.todo = Tail(@),
                                        !.applied = Append(@, version),
                                        !.done = Tail(migration.todo) = <<>>]
    /\ UNCHANGED <<now, authVars, resp, limiterVars>>

MigratorNext ==
    \/ \E fault \in {"none", "createTable", "getApplied"} : RunMigrations(fault)
    \/ \E targetVersion \in Targets, fault \in {"none", "createTable", "getApplied"} :
          MigrateTo(targetVersion, fault)
    \/ \E fault \in {"none"} \cup ApplyFaults : ApplyPending(fault)

MigratorSpec == MigratorInit /\ [][MigratorNext]_vars

\* C30: at every moment of every sequence of RunMigrations and MigrateTo
\* calls, failed ones included, the SQL of each migration has been committed
\* at most once, and a version is in schema_migrations exactly when its SQL
\* has been committed; a migration is applied only when every lower version
\* is applied, and a call applies versions in ascending order; after a call
\* failed at version k no version above k is applied; and a RunMigrations
\* call that found nothing pending changes neither the table nor the schema.
C30_MigrationsAtomicInOrder ==
    /\ [](/\ \A v \in Versions :
               executed[v] <= 1 /\ (v \in schema_migrations <=> executed[v] = 1)
          /\ ~migration.done =>
                \A i, j \in DOMAIN migration.applied :
                    i < j => migration.applied[i] < migration.applied[j]
          /\ (migration.done /\ migration.op # "idle" /\ migration.failedAt # 0) =>
                /\ migration.failedAt \notin schema_migrations
                /\ \A v \in Versions : v > migration.failedAt => v \notin schema_migrations)
    /\ [][/\ \A v \in schema_migrations' \ schema_migrations :
               \A w \in Versions : w < v => w \in schema_migrations
          /\ (/\ ~migration.done /\ migration.op = "RunMigrations"
              /\ Versions \subseteq migration.appliedSet)
             => UNCHANGED <<schema_migrations, executed>>]_vars

\* C30 witness: a call applied version 1 and failed at the Commit of version
\* 3; version 1 alone is recorded.
C30_Witness ==
    /\ migration.done /\ migration.op = "RunMigrations"
    /\ migration.err = "commit" /\ migration.failedAt = 3
    /\ migration.applied = <<1>> /\ schema_migrations = {1}
    /\ executed[1] = 1 /\ executed[3] = 0

====
